---- MODULE Spec2Model ----
(***************************************************************************)
(* Model of the App controller's reconcile loop (AppReconciler.Reconcile)  *)
(* against a Kubernetes-style resource store.  One reconcile pass is a     *)
(* sequence of blocking store operations; every store operation is one     *)
(* atomic step of the model, and other actors (users, other controllers,   *)
(* the kubelet) may write the store between any two of them.               *)
(***************************************************************************)
EXTENDS Integers, Sequences, FiniteSets, TLC

\* ------------------------------------------------------------------ bounds

\* Number of writes by other actors explored in one behaviour.
MaxExt == 1

\* ------------------------------------------------------------- value sets

\* The absent object (a Get of it reports NotFound).
NoObj == [Absent |-> TRUE]

Namespaces == {"default", "other"}

AppNames == {"web", "api"}

\* The App identity the scheduler invokes the reconciler for.
ReqKey == [Namespace |-> "default", Name |-> "web"]

Images == {"nginx:1.0", "nginx:2.0"}

ReplicaChoices == {3, 5}

PortChoices == {80, 8080}

\* ctrl.Result{RequeueAfter: 30 * time.Second}
RequeueDelay == 30

NamespacedName(ns, n) == [Namespace |-> ns, Name |-> n]

\* --------------------------------------------------- intstr.IntOrString

IntStrInt == "Int"

IntStrString == "String"

\* intstr.FromInt
FromInt(v) == [Type |-> IntStrInt, IntVal |-> v, StrVal |-> <<>>]

\* intstr.FromString; the string is a sequence of characters.
FromString(s) == [Type |-> IntStrString, IntVal |-> 0, StrVal |-> s]

Digits == {"0", "1", "2", "3", "4", "5", "6", "7", "8", "9"}

DigitVal(c) == CASE c = "0" -> 0 [] c = "1" -> 1 [] c = "2" -> 2 [] c = "3" -> 3
                 [] c = "4" -> 4 [] c = "5" -> 5 [] c = "6" -> 6 [] c = "7" -> 7
                 [] c = "8" -> 8 [] c = "9" -> 9

RECURSIVE AtoiDigits(_, _)
AtoiDigits(s, acc) ==
    IF s = <<>> THEN acc ELSE AtoiDigits(Tail(s), acc * 10 + DigitVal(Head(s)))

\* strconv.Atoi restricted to unsigned decimal strings; 0 on a parse error,
\* which is how IntOrString.IntValue uses it.
Atoi(s) ==
    IF s # <<>> /\ \A i \in 1..Len(s) : s[i] \in Digits THEN AtoiDigits(s, 0) ELSE 0

\* IntOrString.IntValue
IntValue(t) == IF t.Type = IntStrString THEN Atoi(t.StrVal) ELSE t.IntVal

\* ---------------------------------------------------- Desired-State Builder

\* Variant: the App's name is left out of the Deployment's name.
DeploymentNameFixed(n) == "app-deployment"

\* fmt.Sprintf("%s-deployment", app.Name)
DeploymentName(n) == n \o "-deployment"

\* fmt.Sprintf("%s-service", app.Name)
ServiceName(n) == n \o "-service"

ChildLabels(n) == {<<"app", n>>, <<"controller", "app-controller">>}

NoOwner == [Kind |-> "None"]

\* The desired Deployment built from the fetched App (no owner reference yet).
DesiredDeployment(a) ==
    [Name      |-> DeploymentName(a.Name),
     Namespace |-> a.Namespace,
     Labels    |-> ChildLabels(a.Name),
     Owner     |-> NoOwner,
     rv        |-> 0,
     Spec      |-> [Replicas       |-> a.Spec.Replicas,
                    Selector       |-> {<<"app", a.Name>>},
                    TemplateLabels |-> {<<"app", a.Name>>},
                    Paused         |-> FALSE,
                    Containers     |-> << [Name  |-> "app-container",
                                           Image |-> a.Spec.Image,
                                           Ports |-> << a.Spec.Port >>] >>]]

\* The desired Service built from the fetched App (no owner reference yet).
DesiredService(a) ==
    [Name      |-> ServiceName(a.Name),
     Namespace |-> a.Namespace,
     Labels    |-> ChildLabels(a.Name),
     Owner     |-> NoOwner,
     rv        |-> 0,
     Spec      |-> [Selector |-> {<<"app", a.Name>>},
                    Type     |-> "ClusterIP",
                    Ports    |-> << [Protocol   |-> "TCP",
                                     Port       |-> a.Spec.Port,
                                     TargetPort |-> FromInt(a.Spec.Port)] >>]]

\* ---------------------------------------------------- partial equality

\* Variant: only the replica counts are compared.
deploymentEqualReplicasOnly(a, b) == a.Replicas = b.Replicas

\* Variant: the container ports are not compared.
deploymentEqualNoPorts(a, b) ==
    IF a.Replicas # b.Replicas THEN FALSE
    ELSE IF Len(a.Containers) # Len(b.Containers) THEN FALSE
    ELSE IF Len(a.Containers) > 0
              /\ a.Containers[1].Image # b.Containers[1].Image THEN FALSE
    ELSE TRUE

deploymentEqual(a, b) ==
    IF a.Replicas # b.Replicas THEN FALSE
    ELSE IF Len(a.Containers) # Len(b.Containers) THEN FALSE
    ELSE IF Len(a.Containers) > 0
              /\ a.Containers[1].Image # b.Containers[1].Image THEN FALSE
    ELSE IF Len(a.Containers) > 0
              /\ Len(a.Containers[1].Ports) # Len(b.Containers[1].Ports) THEN FALSE
    ELSE IF Len(a.Containers) > 0
              /\ Len(a.Containers[1].Ports) > 0
              /\ a.Containers[1].Ports[1] # b.Containers[1].Ports[1] THEN FALSE
    ELSE TRUE

\* Variant: only the first ports' port numbers are compared.
serviceEqualPortOnly(a, b) ==
    IF Len(a.Ports) # Len(b.Ports) THEN FALSE
    ELSE IF Len(a.Ports) > 0 /\ a.Ports[1].Port # b.Ports[1].Port THEN FALSE
    ELSE TRUE

\* Variant: the target ports are compared as they are written, not by
\* their numeric value.
serviceEqualStrictTarget(a, b) ==
    IF a.Type # b.Type THEN FALSE
    ELSE IF Len(a.Ports) # Len(b.Ports) THEN FALSE
    ELSE IF Len(a.Ports) > 0 /\ Len(b.Ports) > 0
              /\ (\/ a.Ports[1].Port # b.Ports[1].Port
                  \/ a.Ports[1].TargetPort # b.Ports[1].TargetPort
                  \/ a.Ports[1].Protocol # b.Ports[1].Protocol) THEN FALSE
    ELSE TRUE

serviceEqual(a, b) ==
    IF a.Type # b.Type THEN FALSE
    ELSE IF Len(a.Ports) # Len(b.Ports) THEN FALSE
    ELSE IF Len(a.Ports) > 0 /\ Len(b.Ports) > 0
              /\ (\/ a.Ports[1].Port # b.Ports[1].Port
                  \/ IntValue(a.Ports[1].TargetPort) # IntValue(b.Ports[1].TargetPort)
                  \/ a.Ports[1].Protocol # b.Ports[1].Protocol) THEN FALSE
    ELSE TRUE

\* ------------------------------------------------------------------ state

VARIABLES
    apps,         \* store: App objects by NamespacedName (NoObj when absent)
    deployments,  \* store: Deployments by NamespacedName
    services,     \* store: Services by NamespacedName
    pods,         \* store: Pods by pod id
    schemeOK,     \* whether r.Scheme knows the App kind (fixed at start-up)
    pass,         \* per request key: the in-flight or last invocation of Reconcile
    ext           \* number of writes other actors have made so far

vars == <<apps, deployments, services, pods, schemeOK, pass, ext>>

AppKeys == {NamespacedName(ns, n) : ns \in Namespaces, n \in AppNames}

DeploymentKey(k) == NamespacedName(k.Namespace, DeploymentName(k.Name))

ServiceKey(k) == NamespacedName(k.Namespace, ServiceName(k.Name))

\* metav1.OwnerReference written by SetControllerReference
OwnerRef(a) == [Kind |-> "App", Name |-> a.Name, Controller |-> TRUE]

\* ctrl.SetControllerReference(app, obj, r.Scheme): fails when the scheme
\* cannot resolve the owner's kind or the owner lives in another namespace.
SetControllerReference(a, obj) ==
    IF ~schemeOK \/ a.Namespace # obj.Namespace
    THEN [err |-> "OwnerRef", obj |-> obj]
    ELSE [err |-> "nil", obj |-> [obj EXCEPT !.Owner = OwnerRef(a)]]

\* ---------------------------------------------------------------- pods

PodIds == {"p1", "p2", "p3", "p4"}

\* The order in which a List returns the pods.
PodOrder == <<"p1", "p2", "p3", "p4">>

Cond(t, s) == [Type |-> t, Status |-> s]

CondNotReady == <<Cond("PodScheduled", "True"), Cond("Ready", "False")>>

CondReady == <<Cond("PodScheduled", "True"), Cond("Ready", "True")>>

CondReadyTwice == <<Cond("Ready", "True"), Cond("Ready", "True")>>

CondShapes == {CondNotReady, CondReady, CondReadyTwice}

Pod(ns, appLabel, conds) ==
    [Namespace |-> ns, Labels |-> {<<"app", appLabel>>}, Conditions |-> conds]

\* p1 and p2 belong to the App "web"; p3 carries another App's label and p4
\* lives in another namespace.
PodsWith(c1, c2) ==
    [p \in PodIds |->
        CASE p = "p1" -> Pod("default", "web", c1)
          [] p = "p2" -> Pod("default", "web", c2)
          [] p = "p3" -> Pod("default", "api", CondReady)
          [] p = "p4" -> Pod("other", "web", CondReady)]

InitPods == {PodsWith(CondReady, CondNotReady)}

\* ----------------------------------------------------------- store (client)

Op(op, kind, err) == [op |-> op, kind |-> kind, err |-> err]

\* Failures a store call can report whatever the store holds (network,
\* server-side, cancellation).
InjectedErrs == {"nil", "Transient"}

\* client.Get
StoreGet(store, key, inj) ==
    IF inj # "nil" THEN [err |-> inj, obj |-> NoObj]
    ELSE IF store[key] = NoObj THEN [err |-> "NotFound", obj |-> NoObj]
    ELSE [err |-> "nil", obj |-> store[key]]

\* client.Create
StoreCreate(store, key, obj, inj) ==
    IF inj # "nil" THEN [err |-> inj, store |-> store]
    ELSE IF store[key] # NoObj THEN [err |-> "AlreadyExists", store |-> store]
    ELSE [err |-> "nil", store |-> [store EXCEPT ![key] = [obj EXCEPT !.rv = 1]]]

\* client.Update: optimistic versioning on the resource version read.
StoreUpdate(store, key, obj, inj) ==
    IF inj # "nil" THEN [err |-> inj, store |-> store]
    ELSE IF store[key] = NoObj THEN [err |-> "NotFound", store |-> store]
    ELSE IF store[key].rv # obj.rv THEN [err |-> "Conflict", store |-> store]
    ELSE [err |-> "nil", store |-> [store EXCEPT ![key] = [obj EXCEPT !.rv = obj.rv + 1]]]

\* client.Status().Update: as Update, but only the status is taken from obj.
StoreStatusUpdate(store, key, obj, inj) ==
    IF inj # "nil" THEN [err |-> inj, store |-> store]
    ELSE IF store[key] = NoObj THEN [err |-> "NotFound", store |-> store]
    ELSE IF store[key].rv # obj.rv THEN [err |-> "Conflict", store |-> store]
    ELSE [err |-> "nil",
          store |-> [store EXCEPT ![key] =
                        [store[key] EXCEPT !.Status = obj.Status, !.rv = obj.rv + 1]]]

\* Variant: the listing is not restricted to the App's namespace.
RECURSIVE ListFromAllNamespaces(_, _, _, _)
ListFromAllNamespaces(ps, order, ns, labels) ==
    IF order = <<>> THEN <<>>
    ELSE LET p == ps[Head(order)]
             rest == ListFromAllNamespaces(ps, Tail(order), ns, labels)
         IN IF labels \subseteq p.Labels
            THEN <<p>> \o rest ELSE rest

RECURSIVE ListFrom(_, _, _, _)
ListFrom(ps, order, ns, labels) ==
    IF order = <<>> THEN <<>>
    ELSE LET p == ps[Head(order)]
             rest == ListFrom(ps, Tail(order), ns, labels)
         IN IF p.Namespace = ns /\ labels \subseteq p.Labels
            THEN <<p>> \o rest ELSE rest

\* client.List with InNamespace and MatchingLabels
StoreList(ps, ns, labels, inj) ==
    IF inj # "nil" THEN [err |-> inj, items |-> <<>>]
    ELSE [err |-> "nil", items |-> ListFrom(ps, PodOrder, ns, labels)]

\* ------------------------------------------------------ Reconcile: helpers

\* Variant: the inner loop without its break, so every Ready/True condition
\* of a pod is counted.
RECURSIVE ReadyIncrementNoBreak(_)
ReadyIncrementNoBreak(conds) ==
    IF conds = <<>> THEN 0
    ELSE (IF Head(conds).Type = "Ready" /\ Head(conds).Status = "True" THEN 1 ELSE 0)
           + ReadyIncrementNoBreak(Tail(conds))

\* The inner loop over pod.Status.Conditions: 1 at the first Ready/True
\* condition (readyPods++ then break), 0 when there is none.
RECURSIVE ReadyIncrement(_)
ReadyIncrement(conds) ==
    IF conds = <<>> THEN 0
    ELSE IF Head(conds).Type = "Ready" /\ Head(conds).Status = "True" THEN 1
    ELSE ReadyIncrement(Tail(conds))

\* The outer loop over pods.Items.
RECURSIVE CountReady(_)
CountReady(items) ==
    IF items = <<>> THEN 0
    ELSE ReadyIncrement(Head(items).Conditions) + CountReady(Tail(items))

\* Variant: the status is written on every pass.
StatusChangedAlways(a, ready) == TRUE

\* Variant: the status is written only when the count went up.
StatusChangedOnIncrease(a, ready) == a.Status.Replicas < ready

\* if app.Status.Replicas != readyPods
StatusChanged(a, ready) == a.Status.Replicas # ready

\* Variant: the absent-App path requeues like the normal path.
NotFoundResultRequeue == [RequeueAfter |-> RequeueDelay, err |-> "nil"]

\* Variant: the normal path returns an empty result.
DoneResultNoRequeue == [RequeueAfter |-> 0, err |-> "nil"]

\* return ctrl.Result{}, nil  (App not found)
NotFoundResult == [RequeueAfter |-> 0, err |-> "nil"]

\* return ctrl.Result{RequeueAfter: 30 * time.Second}, nil
DoneResult == [RequeueAfter |-> RequeueDelay, err |-> "nil"]

\* Variant: an error return also asks for the delayed re-invocation.
ErrorResultRequeue(err) == [RequeueAfter |-> RequeueDelay, err |-> err]

\* return ctrl.Result{}, err
ErrorResult(err) == [RequeueAfter |-> 0, err |-> err]

Abort(p, err) == [p EXCEPT !.pc = "Aborted", !.result = ErrorResult(err)]

Finish(p) == [p EXCEPT !.pc = "Done", !.result = DoneResult]

Log(p, op, kind, err) == [p EXCEPT !.ops = Append(@, Op(op, kind, err))]

\* desiredDeployment after SetControllerReference
OwnedDeployment(a) == SetControllerReference(a, DesiredDeployment(a)).obj

\* desiredService after SetControllerReference
OwnedService(a) == SetControllerReference(a, DesiredService(a)).obj

\* Variant: the desired object itself is sent as the update.
UpdatedDeploymentWhole(found, desired) == [desired EXCEPT !.rv = found.rv]

\* Variant: only the compared fields of the Service are overwritten.
UpdatedServicePartial(found, desired) ==
    [found EXCEPT !.Spec.Type = desired.Spec.Type, !.Spec.Ports = desired.Spec.Ports]

\* foundDeployment.Spec = desiredDeployment.Spec
UpdatedDeployment(found, desired) == [found EXCEPT !.Spec = desired.Spec]

\* foundService.Spec = desiredService.Spec
UpdatedService(found, desired) == [found EXCEPT !.Spec = desired.Spec]

\* After the App was fetched: build the desired Deployment and attach the
\* ownership link (steps 2 and 3).
AppFetched(p, a) ==
    LET q == [p EXCEPT !.app = a, !.statusAtFetch = a.Status.Replicas]
        ref == SetControllerReference(a, DesiredDeployment(a))
    IN IF ref.err # "nil" THEN Abort(q, ref.err) ELSE [q EXCEPT !.pc = "GetDeployment"]

\* Variant: the Service step is skipped.
DeploymentConvergedSkipService(p) == [p EXCEPT !.pc = "ListPods"]

\* After the Deployment step succeeded: build the desired Service and attach
\* the ownership link (steps 5 and 6).
DeploymentConverged(p) ==
    LET ref == SetControllerReference(p.app, DesiredService(p.app))
    IN IF ref.err # "nil" THEN Abort(p, ref.err) ELSE [p EXCEPT !.pc = "GetService"]

\* Variant: the error of the Deployment write is dropped.
DeploymentWrittenIgnoreError(p, err) == DeploymentConverged(p)

\* The error check after r.Create / r.Update of the Deployment.
DeploymentWritten(p, err) == IF err # "nil" THEN Abort(p, err) ELSE DeploymentConverged(p)

\* Variant: the error of the Service write is dropped.
ServiceWrittenIgnoreError(p, err) == [p EXCEPT !.pc = "ListPods"]

\* The error check after r.Create / r.Update of the Service.
ServiceWritten(p, err) == IF err # "nil" THEN Abort(p, err) ELSE [p EXCEPT !.pc = "ListPods"]

\* The pods of namespace ns labelled app=name that report a Ready condition
\* with value true (history: what the status should say after a listing).
ReadyPodsOf(ps, ns, name) ==
    {id \in DOMAIN ps :
        /\ ps[id].Namespace = ns
        /\ <<"app", name>> \in ps[id].Labels
        /\ \E i \in 1..Len(ps[id].Conditions) :
             ps[id].Conditions[i] = Cond("Ready", "True")}

\* The state of an invocation that has not run yet.  ops, touched, prev,
\* statusAtFetch and readyAtList are history: the store operations issued so
\* far, the kinds of object other actors wrote since the invocation started,
\* how the previous invocation ended, App.status.replicas as fetched, and the
\* number of ready pods in the store when the pods were listed.
IdlePass ==
    [pc |-> "Idle", app |-> NoObj,
     foundDeployment |-> NoObj, foundService |-> NoObj,
     readyPods |-> 0, result |-> ErrorResult("nil"),
     ops |-> <<>>, touched |-> {},
     prev |-> [pc |-> "Idle", quiet |-> TRUE, RequeueAfter |-> 0],
     statusAtFetch |-> 0, readyAtList |-> 0]

Ended(p) == p.pc \in {"Idle", "Done", "Aborted"}

\* -------------------------------------------------------- Reconcile: steps

\* Step 1: the scheduler invokes Reconcile(req); r.Get of the App.
FetchApp(k) ==
    /\ Ended(pass[k])
    /\ \E inj \in InjectedErrs :
         LET old == pass[k]
             got == StoreGet(apps, k, inj)
             p == [IdlePass EXCEPT
                     !.pc = "Start",
                     !.ops = <<Op("Get", "App", got.err)>>,
                     !.prev = [pc |-> old.pc, quiet |-> old.touched = {},
                               RequeueAfter |-> old.result.RequeueAfter]]
         IN pass' = [pass EXCEPT ![k] =
                       IF got.err = "NotFound"
                       THEN [p EXCEPT !.pc = "Done", !.result = NotFoundResult]
                       ELSE IF got.err # "nil" THEN Abort(p, got.err)
                       ELSE AppFetched(p, got.obj)]
    /\ UNCHANGED <<apps, deployments, services, pods, schemeOK, ext>>

\* Step 4: r.Get of the Deployment and the comparison with the desired one.
GetDeployment(k) ==
    /\ pass[k].pc = "GetDeployment"
    /\ \E inj \in InjectedErrs :
         LET p == pass[k]
             desired == OwnedDeployment(p.app)
             got == StoreGet(deployments,
                             NamespacedName(desired.Namespace, desired.Name), inj)
             q == Log(p, "Get", "Deployment", got.err)
         IN pass' = [pass EXCEPT ![k] =
                       IF got.err = "NotFound" THEN [q EXCEPT !.pc = "CreateDeployment"]
                       ELSE IF got.err # "nil" THEN Abort(q, got.err)
                       ELSE IF ~deploymentEqual(got.obj.Spec, desired.Spec)
                       THEN [q EXCEPT !.pc = "UpdateDeployment",
                                      !.foundDeployment = got.obj]
                       ELSE DeploymentConverged([q EXCEPT !.foundDeployment = got.obj])]
    /\ UNCHANGED <<apps, deployments, services, pods, schemeOK, ext>>

\* r.Create(ctx, desiredDeployment)
CreateDeployment(k) ==
    /\ pass[k].pc = "CreateDeployment"
    /\ \E inj \in InjectedErrs :
         LET p == pass[k]
             desired == OwnedDeployment(p.app)
             res == StoreCreate(deployments,
                                NamespacedName(desired.Namespace, desired.Name),
                                desired, inj)
         IN /\ deployments' = res.store
            /\ pass' = [pass EXCEPT ![k] =
                          DeploymentWritten(Log(p, "Create", "Deployment", res.err), res.err)]
    /\ UNCHANGED <<apps, services, pods, schemeOK, ext>>

\* foundDeployment.Spec = desiredDeployment.Spec; r.Update(ctx, foundDeployment)
UpdateDeployment(k) ==
    /\ pass[k].pc = "UpdateDeployment"
    /\ \E inj \in InjectedErrs :
         LET p == pass[k]
             obj == UpdatedDeployment(p.foundDeployment, OwnedDeployment(p.app))
             res == StoreUpdate(deployments,
                                NamespacedName(obj.Namespace, obj.Name), obj, inj)
         IN /\ deployments' = res.store
            /\ pass' = [pass EXCEPT ![k] =
                          DeploymentWritten(Log(p, "Update", "Deployment", res.err), res.err)]
    /\ UNCHANGED <<apps, services, pods, schemeOK, ext>>

\* Variant: any error of the Service fetch is taken for absence.
GetServiceCreateOnError(k) ==
    /\ pass[k].pc = "GetService"
    /\ \E inj \in InjectedErrs :
         LET p == pass[k]
             desired == OwnedService(p.app)
             got == StoreGet(services,
                             NamespacedName(desired.Namespace, desired.Name), inj)
             q == Log(p, "Get", "Service", got.err)
         IN pass' = [pass EXCEPT ![k] =
                       IF got.err # "nil" THEN [q EXCEPT !.pc = "CreateService"]
                       ELSE IF ~serviceEqual(got.obj.Spec, desired.Spec)
                       THEN [q EXCEPT !.pc = "UpdateService", !.foundService = got.obj]
                       ELSE [q EXCEPT !.pc = "ListPods", !.foundService = got.obj]]
    /\ UNCHANGED <<apps, deployments, services, pods, schemeOK, ext>>

\* Step 7: r.Get of the Service and the comparison with the desired one.
GetService(k) ==
    /\ pass[k].pc = "GetService"
    /\ \E inj \in InjectedErrs :
         LET p == pass[k]
             desired == OwnedService(p.app)
             got == StoreGet(services,
                             NamespacedName(desired.Namespace, desired.Name), inj)
             q == Log(p, "Get", "Service", got.err)
         IN pass' = [pass EXCEPT ![k] =
                       IF got.err = "NotFound" THEN [q EXCEPT !.pc = "CreateService"]
                       ELSE IF got.err # "nil" THEN Abort(q, got.err)
                       ELSE IF ~serviceEqual(got.obj.Spec, desired.Spec)
                       THEN [q EXCEPT !.pc = "UpdateService", !.foundService = got.obj]
                       ELSE [q EXCEPT !.pc = "ListPods", !.foundService = got.obj]]
    /\ UNCHANGED <<apps, deployments, services, pods, schemeOK, ext>>

\* r.Create(ctx, desiredService)
CreateService(k) ==
    /\ pass[k].pc = "CreateService"
    /\ \E inj \in InjectedErrs :
         LET p == pass[k]
             desired == OwnedService(p.app)
             res == StoreCreate(services,
                                NamespacedName(desired.Namespace, desired.Name),
                                desired, inj)
         IN /\ services' = res.store
            /\ pass' = [pass EXCEPT ![k] =
                          ServiceWritten(Log(p, "Create", "Service", res.err), res.err)]
    /\ UNCHANGED <<apps, deployments, pods, schemeOK, ext>>

\* foundService.Spec = desiredService.Spec; r.Update(ctx, foundService)
UpdateService(k) ==
    /\ pass[k].pc = "UpdateService"
    /\ \E inj \in InjectedErrs :
         LET p == pass[k]
             obj == UpdatedService(p.foundService, OwnedService(p.app))
             res == StoreUpdate(services,
                                NamespacedName(obj.Namespace, obj.Name), obj, inj)
         IN /\ services' = res.store
            /\ pass' = [pass EXCEPT ![k] =
                          ServiceWritten(Log(p, "Update", "Service", res.err), res.err)]
    /\ UNCHANGED <<apps, deployments, pods, schemeOK, ext>>

\* Variant: a failed listing is taken for an empty one.
ListPodsIgnoreError(k) ==
    /\ pass[k].pc = "ListPods"
    /\ \E inj \in InjectedErrs :
         LET p == pass[k]
             got == StoreList(pods, p.app.Namespace, {<<"app", p.app.Name>>}, inj)
             q == Log(p, "List", "Pod", got.err)
             ready == CountReady(got.items)
             r == [q EXCEPT !.readyPods = ready,
                           !.readyAtList =
                               Cardinality(ReadyPodsOf(pods, k.Namespace, k.Name))]
         IN pass' = [pass EXCEPT ![k] =
                       IF StatusChanged(p.app, ready)
                       THEN [r EXCEPT !.pc = "UpdateStatus"]
                       ELSE Finish(r)]
    /\ UNCHANGED <<apps, deployments, services, pods, schemeOK, ext>>

\* Step 8: r.List of the App's pods, the ready count and the comparison
\* with app.Status.Replicas.
ListPods(k) ==
    /\ pass[k].pc = "ListPods"
    /\ \E inj \in InjectedErrs :
         LET p == pass[k]
             got == StoreList(pods, p.app.Namespace, {<<"app", p.app.Name>>}, inj)
             q == Log(p, "List", "Pod", got.err)
             ready == CountReady(got.items)
             r == [q EXCEPT !.readyPods = ready,
                           !.readyAtList =
                               Cardinality(ReadyPodsOf(pods, k.Namespace, k.Name))]
         IN pass' = [pass EXCEPT ![k] =
                       IF got.err # "nil" THEN Abort(q, got.err)
                       ELSE IF StatusChanged(p.app, ready)
                       THEN [r EXCEPT !.pc = "UpdateStatus"]
                       ELSE Finish(r)]
    /\ UNCHANGED <<apps, deployments, services, pods, schemeOK, ext>>

\* app.Status.Replicas = readyPods; r.Status().Update(ctx, app)
UpdateStatus(k) ==
    /\ pass[k].pc = "UpdateStatus"
    /\ \E inj \in InjectedErrs :
         LET p == pass[k]
             a == [p.app EXCEPT !.Status.Replicas = p.readyPods]
             res == StoreStatusUpdate(apps, NamespacedName(a.Namespace, a.Name), a, inj)
             q == Log([p EXCEPT !.app = a], "StatusUpdate", "App", res.err)
         IN /\ apps' = res.store
            /\ pass' = [pass EXCEPT ![k] =
                          IF res.err # "nil" THEN Abort(q, res.err) ELSE Finish(q)]
    /\ UNCHANGED <<deployments, services, pods, schemeOK, ext>>

\* ------------------------------------------------------------ other actors

\* Record that another actor wrote an object of the given kind belonging to
\* the App k while k's invocation was in flight or since it ended.
Touch(k, kind) ==
    pass' = [pass EXCEPT ![k].touched = @ \cup {kind}]

TouchAll(kind) ==
    pass' = [k \in DOMAIN pass |-> [pass[k] EXCEPT !.touched = @ \cup {kind}]]

\* Edits another actor (kubectl, an autoscaler, a sidecar injector) makes to
\* a stored Deployment.
DeploymentEdits(d) ==
    ( {[d EXCEPT !.Spec.Replicas = r] : r \in ReplicaChoices}
      \cup {[d EXCEPT !.Labels = @ \cup {<<"team", "blue">>}]}
      \cup {[d EXCEPT !.Spec.Paused = TRUE]}
      \cup {[d EXCEPT !.Spec.Containers =
                Append(@, [Name |-> "sidecar", Image |-> "envoy", Ports |-> <<>>])]
            : x \in IF Len(d.Spec.Containers) < 2 THEN {1} ELSE {}} ) \ {d}

\* Edits another actor makes to a stored Service.  A target port of string
\* type is a port name (the API server admits only names with a letter), so
\* its IntValue is 0.
ServiceEdits(s) ==
    ( {[s EXCEPT !.Spec.Type = "NodePort"]}
      \cup {[s EXCEPT !.Spec.Selector = {<<"app", "canary">>}]}
      \cup {[s EXCEPT !.Spec.Ports[1].TargetPort = FromString(<<"h", "t", "t", "p">>)]
            : x \in IF Len(s.Spec.Ports) > 0 THEN {1} ELSE {}}
      \cup {[s EXCEPT !.Spec.Ports =
                Append(@, [Protocol |-> "TCP", Port |-> 9090, TargetPort |-> FromInt(9090)])]
            : x \in IF Len(s.Spec.Ports) < 2 THEN {1} ELSE {}} ) \ {s}

\* Edits a user makes to the App's spec.
AppEdits(a) ==
    ( {[a EXCEPT !.Spec.Image = i] : i \in Images}
      \cup {[a EXCEPT !.Spec.Replicas = r] : r \in ReplicaChoices}
      \cup {[a EXCEPT !.Spec.Port = q] : q \in PortChoices} ) \ {a}

ExtEditDeployment(k) ==
    /\ ext < MaxExt
    /\ deployments[DeploymentKey(k)] # NoObj
    /\ \E e \in DeploymentEdits(deployments[DeploymentKey(k)]) :
         deployments' = [deployments EXCEPT ![DeploymentKey(k)] = [e EXCEPT !.rv = @ + 1]]
    /\ ext' = ext + 1
    /\ Touch(k, "Deployment")
    /\ UNCHANGED <<apps, services, pods, schemeOK>>

ExtDeleteDeployment(k) ==
    /\ ext < MaxExt
    /\ deployments[DeploymentKey(k)] # NoObj
    /\ deployments' = [deployments EXCEPT ![DeploymentKey(k)] = NoObj]
    /\ ext' = ext + 1
    /\ Touch(k, "Deployment")
    /\ UNCHANGED <<apps, services, pods, schemeOK>>

ExtEditService(k) ==
    /\ ext < MaxExt
    /\ services[ServiceKey(k)] # NoObj
    /\ \E e \in ServiceEdits(services[ServiceKey(k)]) :
         services' = [services EXCEPT ![ServiceKey(k)] = [e EXCEPT !.rv = @ + 1]]
    /\ ext' = ext + 1
    /\ Touch(k, "Service")
    /\ UNCHANGED <<apps, deployments, pods, schemeOK>>

ExtDeleteService(k) ==
    /\ ext < MaxExt
    /\ services[ServiceKey(k)] # NoObj
    /\ services' = [services EXCEPT ![ServiceKey(k)] = NoObj]
    /\ ext' = ext + 1
    /\ Touch(k, "Service")
    /\ UNCHANGED <<apps, deployments, pods, schemeOK>>

\* The pods whose readiness changes; p3 and p4 stay ready throughout.
ChangingPods == {"p1", "p2"}

\* The kubelet reports new conditions for a pod.
ExtPodStatus ==
    /\ ext < MaxExt
    /\ \E id \in ChangingPods, c \in CondShapes :
         /\ pods[id].Conditions # c
         /\ pods' = [pods EXCEPT ![id].Conditions = c]
    /\ ext' = ext + 1
    /\ TouchAll("Pod")
    /\ UNCHANGED <<apps, deployments, services, schemeOK>>

ExtEditApp(k) ==
    /\ ext < MaxExt
    /\ apps[k] # NoObj
    /\ \E e \in AppEdits(apps[k]) :
         apps' = [apps EXCEPT ![k] = [e EXCEPT !.rv = @ + 1]]
    /\ ext' = ext + 1
    /\ Touch(k, "App")
    /\ UNCHANGED <<deployments, services, pods, schemeOK>>

ExtDeleteApp(k) ==
    /\ ext < MaxExt
    /\ apps[k] # NoObj
    /\ apps' = [apps EXCEPT ![k] = NoObj]
    /\ ext' = ext + 1
    /\ Touch(k, "App")
    /\ UNCHANGED <<deployments, services, pods, schemeOK>>

\* ------------------------------------------------------------ initial state

\* An App as the schema layer admits it.
NewApp(k, image, replicas, port, ready) ==
    [Name |-> k.Name, Namespace |-> k.Namespace, rv |-> 1,
     Spec |-> [Image |-> image, Replicas |-> replicas, Port |-> port],
     Status |-> [Replicas |-> ready]]

InitApps(k) ==
    {NoObj} \cup {NewApp(k, "nginx:1.0", 3, 8080, ready) : ready \in {0, 1}}

\* A Deployment with the managed name that somebody else created: no
\* ownership link, extra label, paused rollout.
ForeignDeployment(k, replicas) ==
    [Name |-> DeploymentName(k.Name), Namespace |-> k.Namespace,
     Labels |-> {<<"app", k.Name>>, <<"team", "red">>},
     Owner |-> NoOwner, rv |-> 1,
     Spec |-> [Replicas |-> replicas,
               Selector |-> {<<"app", k.Name>>},
               TemplateLabels |-> {<<"app", k.Name>>},
               Paused |-> TRUE,
               Containers |-> << [Name |-> "main", Image |-> "nginx:1.0",
                                  Ports |-> << 8080 >>] >>]]

InitDeployments(k) ==
    {NoObj} \cup {ForeignDeployment(k, r) : r \in ReplicaChoices}

\* A Service with the managed name that somebody else created.
ForeignService(k, port) ==
    [Name |-> ServiceName(k.Name), Namespace |-> k.Namespace,
     Labels |-> {<<"app", k.Name>>, <<"team", "red">>},
     Owner |-> NoOwner, rv |-> 1,
     Spec |-> [Selector |-> {<<"app", "legacy">>},
               Type |-> "ClusterIP",
               Ports |-> << [Protocol |-> "TCP", Port |-> port,
                             TargetPort |-> FromInt(port)] >>]]

InitServices(k) ==
    {NoObj} \cup {ForeignService(k, q) : q \in PortChoices}

Init ==
    /\ \E a \in InitApps(ReqKey) :
         apps = [k \in AppKeys |-> IF k = ReqKey THEN a ELSE NoObj]
    /\ \E d \in InitDeployments(ReqKey) :
         deployments = [k \in {DeploymentKey(x) : x \in AppKeys} |->
                           IF k = DeploymentKey(ReqKey) THEN d ELSE NoObj]
    /\ \E s \in InitServices(ReqKey) :
         services = [k \in {ServiceKey(x) : x \in AppKeys} |->
                        IF k = ServiceKey(ReqKey) THEN s ELSE NoObj]
    /\ pods \in InitPods
    /\ schemeOK \in BOOLEAN
    /\ pass = [k \in {ReqKey} |-> IdlePass]
    /\ ext = 0

Next ==
    \/ \E k \in DOMAIN pass : FetchApp(k)
    \/ \E k \in DOMAIN pass : GetDeployment(k)
    \/ \E k \in DOMAIN pass : CreateDeployment(k)
    \/ \E k \in DOMAIN pass : UpdateDeployment(k)
    \/ \E k \in DOMAIN pass : GetService(k)
    \/ \E k \in DOMAIN pass : CreateService(k)
    \/ \E k \in DOMAIN pass : UpdateService(k)
    \/ \E k \in DOMAIN pass : ListPods(k)
    \/ \E k \in DOMAIN pass : UpdateStatus(k)
    \/ \E k \in DOMAIN pass : ExtEditDeployment(k)
    \/ \E k \in DOMAIN pass : ExtDeleteDeployment(k)
    \/ \E k \in DOMAIN pass : ExtEditService(k)
    \/ \E k \in DOMAIN pass : ExtDeleteService(k)
    \/ \E k \in DOMAIN pass : ExtEditApp(k)
    \/ \E k \in DOMAIN pass : ExtDeleteApp(k)
    \/ ExtPodStatus

Spec == Init /\ [][Next]_vars

\* ------------------------------------------------- vocabulary of the claims

\* The invocation fetched the App (it did not end on the App's absence or on
\* a failed fetch).
Fetched(p) == p.app # NoObj

OpIndexes(p, op, kind) ==
    {i \in 1..Len(p.ops) : p.ops[i].op = op /\ p.ops[i].kind = kind}

\* The store writes the invocation has issued so far, failed ones included.
WriteIndexes(p) ==
    {i \in 1..Len(p.ops) : p.ops[i].op \in {"Create", "Update", "StatusUpdate"}}

\* The invocation stands right before a store write it has decided to issue.
AboutToWrite(p) ==
    p.pc \in {"CreateDeployment", "UpdateDeployment", "CreateService",
              "UpdateService", "UpdateStatus"}

Succeeded(p, op, kind) == \E i \in OpIndexes(p, op, kind) : p.ops[i].err = "nil"

StoredDeployment(k) == deployments[DeploymentKey(k)]

StoredService(k) == services[ServiceKey(k)]

\* The Deployment has exactly the shape the App's spec asks for.
DeploymentMatches(d, s) ==
    /\ d # NoObj
    /\ d.Spec.Replicas = s.Replicas
    /\ Len(d.Spec.Containers) = 1
    /\ d.Spec.Containers[1].Image = s.Image
    /\ d.Spec.Containers[1].Ports = <<s.Port>>

\* The Service has exactly one TCP port entry, port = target port = spec port.
ServiceMatches(v, s) ==
    /\ v # NoObj
    /\ Len(v.Spec.Ports) = 1
    /\ v.Spec.Ports[1].Port = s.Port
    /\ v.Spec.Ports[1].TargetPort = FromInt(s.Port)
    /\ v.Spec.Ports[1].Protocol = "TCP"

\* ------------------------------------------------------------------ claims

\* C1 (idempotence): a pass that follows a pass that ended Done, with no
\* write by any other actor since that earlier pass started, issues no store
\* write at all (no create, no update, no status update) and never decides
\* to issue one.
C1_Idempotence ==
    \A k \in DOMAIN pass :
        LET p == pass[k]
        IN (p.pc # "Idle" /\ p.prev.pc = "Done" /\ p.prev.quiet /\ p.touched = {})
              => WriteIndexes(p) = {} /\ ~AboutToWrite(p)

\* A second undisturbed pass has ended Done after the first one created the
\* Deployment (it carries the ownership link only a create attaches).
C1_Witness ==
    \E k \in DOMAIN pass :
        LET p == pass[k]
        IN /\ p.pc = "Done" /\ Fetched(p)
           /\ p.prev.pc = "Done" /\ p.prev.quiet /\ p.touched = {}
           /\ StoredDeployment(k) # NoObj
           /\ StoredDeployment(k).Owner = OwnerRef(p.app)
           /\ apps[k].Status.Replicas # 0

\* C2 (convergence): when a pass that fetched the App with spec S ends Done
\* and nobody else wrote the children during the pass, the stored Deployment
\* has replicas, single container image and single container port of S, and
\* the stored Service has exactly one port entry, TCP, port = target port =
\* S.port.
C2_Convergence ==
    \A k \in DOMAIN pass :
        LET p == pass[k]
        IN (p.pc = "Done" /\ Fetched(p) /\ p.touched \cap {"Deployment", "Service"} = {})
              => /\ DeploymentMatches(StoredDeployment(k), p.app.Spec)
                 /\ ServiceMatches(StoredService(k), p.app.Spec)

\* A pass ended Done after updating a drifted Deployment and a drifted
\* Service.
C2_Witness ==
    \E k \in DOMAIN pass :
        LET p == pass[k]
        IN /\ p.pc = "Done" /\ Fetched(p)
           /\ p.touched \cap {"Deployment", "Service"} = {}
           /\ Succeeded(p, "Update", "Deployment")
           /\ Succeeded(p, "Update", "Service")

\* C3 (drift correction): a pass that ends Done after finding the stored
\* Deployment with a replica count other than the App's, and that no other
\* actor's Deployment write interleaves with, issued exactly one Deployment
\* update and no create; afterwards the stored replica count is the App's
\* and the Deployment's labels are those the pass read, extra ones included.
C3_DriftCorrection ==
    \A k \in DOMAIN pass :
        LET p == pass[k]
        IN (/\ p.pc = "Done" /\ Fetched(p)
            /\ p.foundDeployment # NoObj
            /\ p.foundDeployment.Spec.Replicas # p.app.Spec.Replicas
            /\ "Deployment" \notin p.touched)
              => /\ Cardinality(OpIndexes(p, "Update", "Deployment")) = 1
                 /\ OpIndexes(p, "Create", "Deployment") = {}
                 /\ StoredDeployment(k) # NoObj
                 /\ StoredDeployment(k).Spec.Replicas = p.app.Spec.Replicas
                 /\ StoredDeployment(k).Labels = p.foundDeployment.Labels

\* After a pass had ended Done another actor changed the replica count of a
\* Deployment that carries an extra label; the next pass restored the count
\* and the label is still there.
C3_Witness ==
    \E k \in DOMAIN pass :
        LET p == pass[k]
        IN /\ p.pc = "Done" /\ Fetched(p)
           /\ p.prev.pc = "Done" /\ p.prev.RequeueAfter = RequeueDelay /\ ~p.prev.quiet
           /\ p.foundDeployment # NoObj
           /\ p.foundDeployment.Spec.Replicas # p.app.Spec.Replicas
           /\ "Deployment" \notin p.touched
           /\ \E l \in StoredDeployment(k).Labels : l[1] = "team"
           /\ StoredDeployment(k).Spec.Replicas = p.app.Spec.Replicas

\* The compared subset of a Deployment spec, stated on its own.
DeploymentSubsetEqual(a, b) ==
    /\ a.Replicas = b.Replicas
    /\ Len(a.Containers) = Len(b.Containers)
    /\ Len(a.Containers) > 0 =>
         /\ a.Containers[1].Image = b.Containers[1].Image
         /\ Len(a.Containers[1].Ports) = Len(b.Containers[1].Ports)
         /\ Len(a.Containers[1].Ports) > 0 =>
              a.Containers[1].Ports[1] = b.Containers[1].Ports[1]

\* The compared subset of a Service spec, stated on its own.
ServiceSubsetEqual(a, b) ==
    /\ a.Type = b.Type
    /\ Len(a.Ports) = Len(b.Ports)
    /\ (Len(a.Ports) > 0 /\ Len(b.Ports) > 0) =>
         /\ a.Ports[1].Port = b.Ports[1].Port
         /\ IntValue(a.Ports[1].TargetPort) = IntValue(b.Ports[1].TargetPort)
         /\ a.Ports[1].Protocol = b.Ports[1].Protocol

\* C4 as stated: an update leaves every specification field outside the
\* compared subset as the pass read it (the Deployment's paused flag, the
\* Service's selector).
C4_SubsetOnlyOverwrite ==
    \A k \in DOMAIN pass :
        LET p == pass[k]
        IN /\ (Succeeded(p, "Update", "Deployment") /\ "Deployment" \notin p.touched)
                => StoredDeployment(k).Spec.Paused = p.foundDeployment.Spec.Paused
           /\ (Succeeded(p, "Update", "Service") /\ "Service" \notin p.touched)
                => StoredService(k).Spec.Selector = p.foundService.Spec.Selector

\* C4 amended: an update is decided only when a field of the compared subset
\* differs; the update replaces the child's whole specification by the
\* desired one, and leaves name, labels and ownership link as the pass read
\* them.
C4_WholeSpecOverwrite ==
    \A k \in DOMAIN pass :
        LET p == pass[k]
        IN /\ (p.pc = "UpdateDeployment" \/ OpIndexes(p, "Update", "Deployment") # {})
                => ~DeploymentSubsetEqual(p.foundDeployment.Spec,
                                          DesiredDeployment(p.app).Spec)
           /\ (p.pc = "UpdateService" \/ OpIndexes(p, "Update", "Service") # {})
                => ~ServiceSubsetEqual(p.foundService.Spec, DesiredService(p.app).Spec)
           /\ (Succeeded(p, "Update", "Deployment") /\ "Deployment" \notin p.touched)
                => /\ StoredDeployment(k).Spec = DesiredDeployment(p.app).Spec
                   /\ StoredDeployment(k).Labels = p.foundDeployment.Labels
                   /\ StoredDeployment(k).Owner = p.foundDeployment.Owner
                   /\ StoredDeployment(k).Name = p.foundDeployment.Name
           /\ (Succeeded(p, "Update", "Service") /\ "Service" \notin p.touched)
                => /\ StoredService(k).Spec = DesiredService(p.app).Spec
                   /\ StoredService(k).Labels = p.foundService.Labels
                   /\ StoredService(k).Owner = p.foundService.Owner
                   /\ StoredService(k).Name = p.foundService.Name

\* A pass updated a Service whose selector another actor had set and a
\* Deployment whose rollout another actor had paused.
C4_Witness ==
    \E k \in DOMAIN pass :
        LET p == pass[k]
        IN /\ Succeeded(p, "Update", "Deployment") /\ "Deployment" \notin p.touched
           /\ p.foundDeployment.Spec.Paused
           /\ Succeeded(p, "Update", "Service") /\ "Service" \notin p.touched
           /\ p.foundService.Spec.Selector # DesiredService(p.app).Spec.Selector

\* C5 as stated: after a pass that ends Done, with no other actor writing
\* the children meanwhile, both stored children carry the ownership link to
\* the App.
C5_OwnershipAfterDone ==
    \A k \in DOMAIN pass :
        LET p == pass[k]
        IN (p.pc = "Done" /\ Fetched(p) /\ p.touched \cap {"Deployment", "Service"} = {})
              => /\ StoredDeployment(k) # NoObj
                 /\ StoredDeployment(k).Owner = OwnerRef(p.app)
                 /\ StoredService(k) # NoObj
                 /\ StoredService(k).Owner = OwnerRef(p.app)

\* C6 (status write-suppression): the pass decides to write the status
\* exactly when the count of ready pods differs from App.status.replicas as
\* fetched; it issues at most one status write, and a successful one leaves
\* the counted value in the stored App.
C6_StatusWriteSuppression ==
    \A k \in DOMAIN pass :
        LET p == pass[k]
            issued == OpIndexes(p, "StatusUpdate", "App")
        IN /\ (p.pc = "UpdateStatus" \/ issued # {}) => p.readyPods # p.statusAtFetch
           /\ (p.pc = "Done" /\ Fetched(p) /\ issued = {}) => p.readyPods = p.statusAtFetch
           /\ Cardinality(issued) <= 1
           /\ (Succeeded(p, "StatusUpdate", "App") /\ apps[k] # NoObj)
                => apps[k].Status.Replicas = p.readyPods

\* A pass counted two ready pods while the fetched status said one, and its
\* single status write went through.
C6_Witness ==
    \E k \in DOMAIN pass :
        LET p == pass[k]
        IN /\ p.pc = "Done"
           /\ p.statusAtFetch = 1 /\ p.readyPods = 2
           /\ Succeeded(p, "StatusUpdate", "App")
           /\ apps[k] # NoObj /\ apps[k].Status.Replicas = 2

\* C7 (status accuracy): at the end of a pass that fetched the App and ended
\* Done, the stored App.status.replicas is the number of pods of the App's
\* namespace labelled app=<name> that had a true Ready condition when the
\* pass listed them, each pod counted once.
C7_StatusAccuracy ==
    \A k \in DOMAIN pass :
        LET p == pass[k]
        IN (p.pc = "Done" /\ Fetched(p) /\ apps[k] # NoObj)
              => apps[k].Status.Replicas = p.readyAtList

\* A pass ended Done having listed a pod that reports Ready twice.
C7_Witness ==
    \E k \in DOMAIN pass :
        LET p == pass[k]
        IN /\ p.pc = "Done" /\ Fetched(p) /\ apps[k] # NoObj
           /\ pods["p2"].Conditions = CondReadyTwice
           /\ p.readyAtList = 2
           /\ Succeeded(p, "StatusUpdate", "App")

\* C8 (deletion terminality): an invocation whose App fetch reports absence
\* ends Done with no error and no delayed requeue, and the fetch is the only
\* store operation it issues.
C8_DeletionTerminal ==
    \A k \in DOMAIN pass :
        LET p == pass[k]
        IN (p.ops # <<>> /\ p.ops[1] = Op("Get", "App", "NotFound"))
              => /\ p.pc = "Done"
                 /\ p.result.err = "nil"
                 /\ p.result.RequeueAfter = 0
                 /\ Len(p.ops) = 1
                 /\ ~Fetched(p)

\* The App was deleted after a pass had created its children; the next
\* invocation found it absent.
C8_Witness ==
    \E k \in DOMAIN pass :
        LET p == pass[k]
        IN /\ p.pc = "Done"
           /\ p.ops = <<Op("Get", "App", "NotFound")>>
           /\ apps[k] = NoObj
           /\ StoredDeployment(k) # NoObj
           /\ StoredDeployment(k).Owner # NoOwner

\* C9 as stated: every invocation that ends Done requests a requeue after 30.
C9_AlwaysRequeue ==
    \A k \in DOMAIN pass :
        pass[k].pc = "Done" => pass[k].result.RequeueAfter = RequeueDelay

\* C9 amended: an invocation that ends Done requests a requeue after 30 when
\* it fetched the App, and none when it ended on the App's absence.
C9_RequeueIffFetched ==
    \A k \in DOMAIN pass :
        LET p == pass[k]
        IN p.pc = "Done"
              => /\ p.result.err = "nil"
                 /\ Fetched(p) => p.result.RequeueAfter = RequeueDelay
                 /\ ~Fetched(p) => p.result.RequeueAfter = 0

\* A pass that wrote nothing ended Done with the requeue requested.
C9_Witness ==
    \E k \in DOMAIN pass :
        LET p == pass[k]
        IN /\ p.pc = "Done" /\ Fetched(p)
           /\ WriteIndexes(p) = {}
           /\ p.result.RequeueAfter = RequeueDelay

\* C10 (partial-failure isolation): a failed Service create or update is the
\* last store operation of its invocation, which ends Aborted with that
\* error and no requeue; the pods are not listed and no status write is
\* issued; and a Deployment the pass wrote before is still stored with the
\* desired specification unless another actor wrote it since.
C10_PartialFailure ==
    \A k \in DOMAIN pass :
        LET p == pass[k]
        IN \A i \in OpIndexes(p, "Create", "Service") \cup OpIndexes(p, "Update", "Service") :
              p.ops[i].err # "nil"
                 => /\ i = Len(p.ops)
                    /\ p.pc = "Aborted"
                    /\ p.result = ErrorResult(p.ops[i].err)
                    /\ OpIndexes(p, "List", "Pod") = {}
                    /\ OpIndexes(p, "StatusUpdate", "App") = {}
                    /\ apps[k] # NoObj => apps[k].Status.Replicas = p.statusAtFetch
                    /\ ((Succeeded(p, "Create", "Deployment")
                           \/ Succeeded(p, "Update", "Deployment"))
                        /\ "Deployment" \notin p.touched)
                         => /\ StoredDeployment(k) # NoObj
                            /\ StoredDeployment(k).Spec = DesiredDeployment(p.app).Spec

\* The Deployment was created, then the Service create failed.
C10_Witness ==
    \E k \in DOMAIN pass :
        LET p == pass[k]
        IN /\ p.pc = "Aborted"
           /\ Succeeded(p, "Create", "Deployment")
           /\ p.ops[Len(p.ops)] = Op("Create", "Service", "Transient")
           /\ StoredDeployment(k) # NoObj
           /\ StoredService(k) = NoObj

\* A store call that failed: any error except the absence a Get reports.
Failing(o) == o.err # "nil" /\ ~(o.op = "Get" /\ o.err = "NotFound")

\* C11 (abort contract): an invocation that ended Aborted returns exactly
\* the error of its last store call (or the ownership-link error, raised
\* right after a successful call) and asks for no delayed re-invocation;
\* every failed store call is the last call of its invocation and leaves it
\* Aborted with that error; no store call is issued twice in one invocation.
C11_AbortContract ==
    \A k \in DOMAIN pass :
        LET p == pass[k]
            n == Len(p.ops)
        IN /\ p.pc = "Aborted"
                => /\ n >= 1
                   /\ p.result.err # "nil"
                   /\ p.result.RequeueAfter = 0
                   /\ \/ Failing(p.ops[n]) /\ p.result.err = p.ops[n].err
                      \/ p.ops[n].err = "nil" /\ p.result.err = "OwnerRef"
           /\ \A i \in 1..n :
                Failing(p.ops[i])
                   => /\ i = n
                      /\ p.pc = "Aborted"
                      /\ p.result = [RequeueAfter |-> 0, err |-> p.ops[i].err]
           /\ \A i, j \in 1..n :
                (p.ops[i].op = p.ops[j].op /\ p.ops[i].kind = p.ops[j].kind) => i = j

\* The status update hit a version conflict after the pass had created both
\* children and listed the pods.
C11_Witness ==
    \E k \in DOMAIN pass :
        LET p == pass[k]
        IN /\ p.pc = "Aborted"
           /\ Len(p.ops) = 7
           /\ p.ops[7] = Op("StatusUpdate", "App", "Conflict")
           /\ Succeeded(p, "Create", "Deployment")
           /\ Succeeded(p, "Create", "Service")

\* ------------------------------------------------ a fairly scheduled system

\* The App exists from the start and the manager's scheme knows its kind
\* (the start-up registration the controller is built with).
InitLive ==
    /\ apps = [k \in AppKeys |->
                 IF k = ReqKey THEN NewApp(k, "nginx:1.0", 3, 8080, 0) ELSE NoObj]
    /\ \E d \in InitDeployments(ReqKey) :
         deployments = [k \in {DeploymentKey(x) : x \in AppKeys} |->
                           IF k = DeploymentKey(ReqKey) THEN d ELSE NoObj]
    /\ \E s \in {NoObj, ForeignService(ReqKey, 80)} :
         services = [k \in {ServiceKey(x) : x \in AppKeys} |->
                        IF k = ServiceKey(ReqKey) THEN s ELSE NoObj]
    /\ pods \in InitPods
    /\ schemeOK = TRUE
    /\ pass = [k \in {ReqKey} |-> IdlePass]
    /\ ext = 0

\* The App is never deleted; other actors still edit it, the children and
\* the pods, MaxExt times in all.
NextLive ==
    \/ \E k \in DOMAIN pass : FetchApp(k)
    \/ \E k \in DOMAIN pass : GetDeployment(k)
    \/ \E k \in DOMAIN pass : CreateDeployment(k)
    \/ \E k \in DOMAIN pass : UpdateDeployment(k)
    \/ \E k \in DOMAIN pass : GetService(k)
    \/ \E k \in DOMAIN pass : CreateService(k)
    \/ \E k \in DOMAIN pass : UpdateService(k)
    \/ \E k \in DOMAIN pass : ListPods(k)
    \/ \E k \in DOMAIN pass : UpdateStatus(k)
    \/ \E k \in DOMAIN pass : ExtEditDeployment(k)
    \/ \E k \in DOMAIN pass : ExtDeleteDeployment(k)
    \/ \E k \in DOMAIN pass : ExtEditService(k)
    \/ \E k \in DOMAIN pass : ExtDeleteService(k)
    \/ \E k \in DOMAIN pass : ExtEditApp(k)
    \/ ExtPodStatus

\* The step of the invocation for k does not end it Aborted.
Unfailing(k) == pass'[k].pc # "Aborted"

\* Any step of Reconcile for k.
ReconcileStep(k) ==
    \/ FetchApp(k)
    \/ GetDeployment(k)
    \/ CreateDeployment(k)
    \/ UpdateDeployment(k)
    \/ GetService(k)
    \/ CreateService(k)
    \/ UpdateService(k)
    \/ ListPods(k)
    \/ UpdateStatus(k)

\* A running invocation takes its next step, the scheduler re-invokes
\* Reconcile after every invocation (retry with back-off after an error,
\* RequeueAfter after a normal return), and each store call that is
\* attempted again and again eventually succeeds.
Fairness ==
    /\ WF_vars(ReconcileStep(ReqKey))
    /\ SF_vars(FetchApp(ReqKey) /\ Unfailing(ReqKey))
    /\ SF_vars(GetDeployment(ReqKey) /\ Unfailing(ReqKey))
    /\ SF_vars(CreateDeployment(ReqKey) /\ Unfailing(ReqKey))
    /\ SF_vars(UpdateDeployment(ReqKey) /\ Unfailing(ReqKey))
    /\ SF_vars(GetService(ReqKey) /\ Unfailing(ReqKey))
    /\ SF_vars(CreateService(ReqKey) /\ Unfailing(ReqKey))
    /\ SF_vars(UpdateService(ReqKey) /\ Unfailing(ReqKey))
    /\ SF_vars(ListPods(ReqKey) /\ Unfailing(ReqKey))
    /\ SF_vars(UpdateStatus(ReqKey) /\ Unfailing(ReqKey))

SpecLive == InitLive /\ [][NextLive]_vars /\ Fairness

\* The stored children have the shape the stored App asks for and the
\* stored status is the number of the App's ready pods.
Converged(k) ==
    /\ apps[k] # NoObj
    /\ DeploymentMatches(StoredDeployment(k), apps[k].Spec)
    /\ ServiceMatches(StoredService(k), apps[k].Spec)
    /\ apps[k].Status.Replicas =
          Cardinality(ReadyPodsOf(pods, apps[k].Namespace, apps[k].Name))

\* C12 (eventual convergence): under fair re-invocation, with store calls
\* that eventually succeed and other actors that eventually stop writing,
\* invocations keep reaching Done and from some point on the stored
\* Deployment and Service match the App's spec and App.status.replicas is
\* the ready-pod count, whatever passes were Aborted before.
C12_EventualConvergence ==
    /\ []<>(pass[ReqKey].pc = "Done")
    /\ <>[]Converged(ReqKey)

\* A pass ended Done in a converged store right after a pass that ended
\* Aborted and after the other actors' last write.
C12_Witness ==
    /\ pass[ReqKey].pc = "Done"
    /\ pass[ReqKey].prev.pc = "Aborted"
    /\ ext = MaxExt
    /\ Converged(ReqKey)
    /\ Succeeded(pass[ReqKey], "Update", "Deployment")

\* The invocation p has just ended Aborted on a rejected (op, kind) call:
\* the call is the last one logged and its error is the returned one.
AbortedOn(p, op, kind) ==
    /\ p.pc = "Aborted"
    /\ Len(p.ops) > 0
    /\ p.ops[Len(p.ops)].op = op
    /\ p.ops[Len(p.ops)].kind = kind
    /\ p.ops[Len(p.ops)].err \in {"Conflict", "Transient"}
    /\ p.result.err = p.ops[Len(p.ops)].err

\* C13 (optimistic concurrency): when a pass issues its Deployment update,
\* Service update or App status update while the stored object is no longer
\* the one the pass read (another writer changed it in between), the call
\* is rejected, the pass ends Aborted with that error and the stored object
\* stays as the other writer left it.
C13_StaleUpdateRejected ==
    [][\A k \in DOMAIN pass :
         /\ (/\ pass[k].pc = "UpdateDeployment" /\ pass'[k].pc # "UpdateDeployment"
             /\ StoredDeployment(k) \notin {NoObj, pass[k].foundDeployment})
               => deployments' = deployments
                  /\ AbortedOn(pass'[k], "Update", "Deployment")
         /\ (/\ pass[k].pc = "UpdateService" /\ pass'[k].pc # "UpdateService"
             /\ StoredService(k) \notin {NoObj, pass[k].foundService})
               => services' = services
                  /\ AbortedOn(pass'[k], "Update", "Service")
         /\ (/\ pass[k].pc = "UpdateStatus" /\ pass'[k].pc # "UpdateStatus"
             /\ apps[k] \notin {NoObj, pass[k].app})
               => apps' = apps
                  /\ AbortedOn(pass'[k], "StatusUpdate", "App")]_vars

\* A Deployment update was rejected as stale and the stored Deployment still
\* carries the label the other writer added after the pass had read it.
C13_Witness ==
    \E k \in DOMAIN pass :
        LET p == pass[k]
        IN /\ p.pc = "Aborted"
           /\ p.ops[Len(p.ops)] = Op("Update", "Deployment", "Conflict")
           /\ StoredDeployment(k) # NoObj
           /\ StoredDeployment(k).rv = p.foundDeployment.rv + 1
           /\ <<"team", "blue">> \in StoredDeployment(k).Labels
           /\ <<"team", "blue">> \notin p.foundDeployment.Labels

\* The same for the status write: the App's spec was edited after the pass
\* had fetched the App, and the stored status is still the fetched one.
C13_WitnessStatus ==
    \E k \in DOMAIN pass :
        LET p == pass[k]
        IN /\ p.pc = "Aborted"
           /\ p.ops[Len(p.ops)] = Op("StatusUpdate", "App", "Conflict")
           /\ apps[k] # NoObj
           /\ apps[k].Status.Replicas = p.statusAtFetch
           /\ apps[k].Status.Replicas # p.readyPods

\* ------------------------------------------- one App of any identity, alone

\* One App, of any identity and any admitted spec, in a store whose children
\* are absent or were created by somebody else; no other actor writes.
InitAny ==
    /\ \E key \in AppKeys, image \in Images, r \in ReplicaChoices, q \in PortChoices :
         /\ apps = [k \in AppKeys |->
                      IF k = key THEN NewApp(key, image, r, q, 0) ELSE NoObj]
         /\ \E d \in {NoObj, ForeignDeployment(key, 5)} :
              deployments = [k \in {DeploymentKey(x) : x \in AppKeys} |->
                                IF k = DeploymentKey(key) THEN d ELSE NoObj]
         /\ \E s \in {NoObj, ForeignService(key, 80)} :
              services = [k \in {ServiceKey(x) : x \in AppKeys} |->
                             IF k = ServiceKey(key) THEN s ELSE NoObj]
         /\ pass = [k \in {key} |-> IdlePass]
    /\ pods \in InitPods
    /\ schemeOK = TRUE
    /\ ext = 0

NextReconcile ==
    \/ \E k \in DOMAIN pass : FetchApp(k)
    \/ \E k \in DOMAIN pass : GetDeployment(k)
    \/ \E k \in DOMAIN pass : CreateDeployment(k)
    \/ \E k \in DOMAIN pass : UpdateDeployment(k)
    \/ \E k \in DOMAIN pass : GetService(k)
    \/ \E k \in DOMAIN pass : CreateService(k)
    \/ \E k \in DOMAIN pass : UpdateService(k)
    \/ \E k \in DOMAIN pass : ListPods(k)
    \/ \E k \in DOMAIN pass : UpdateStatus(k)

SpecAny == InitAny /\ [][NextReconcile]_vars

\* C14 (naming): for an App named N in namespace NS, the desired Deployment
\* a pass builds is named N-deployment and the desired Service N-service,
\* both in NS with the labels app=N and controller=app-controller; the
\* Deployment's selector and pod template label and the Service's selector
\* are app=N; a child the pass created is stored under that name with these
\* values.
C14_Naming ==
    \A k \in DOMAIN pass :
        LET p == pass[k]
            N == p.app.Name
            NS == p.app.Namespace
            d == DesiredDeployment(p.app)
            s == DesiredService(p.app)
            labels == {<<"app", N>>, <<"controller", "app-controller">>}
        IN Fetched(p) =>
             /\ d.Name = N \o "-deployment"
             /\ s.Name = N \o "-service"
             /\ d.Namespace = NS /\ s.Namespace = NS
             /\ d.Labels = labels /\ s.Labels = labels
             /\ d.Spec.Selector = {<<"app", N>>}
             /\ d.Spec.TemplateLabels = {<<"app", N>>}
             /\ s.Spec.Selector = {<<"app", N>>}
             /\ Succeeded(p, "Create", "Deployment")
                  => LET o == deployments[[Namespace |-> NS, Name |-> N \o "-deployment"]]
                     IN /\ o # NoObj
                        /\ o.Name = N \o "-deployment" /\ o.Namespace = NS
                        /\ o.Labels = labels
                        /\ o.Spec.TemplateLabels = {<<"app", N>>}
             /\ Succeeded(p, "Create", "Service")
                  => LET o == services[[Namespace |-> NS, Name |-> N \o "-service"]]
                     IN /\ o # NoObj
                        /\ o.Name = N \o "-service" /\ o.Namespace = NS
                        /\ o.Labels = labels
                        /\ o.Spec.Selector = {<<"app", N>>}

\* The App other/api had both children created: api-deployment and
\* api-service are stored in namespace other.
C14_Witness ==
    \E k \in DOMAIN pass :
        LET p == pass[k]
        IN /\ p.pc = "Done" /\ Fetched(p)
           /\ p.app.Name = "api" /\ p.app.Namespace = "other"
           /\ Succeeded(p, "Create", "Deployment")
           /\ Succeeded(p, "Create", "Service")
           /\ deployments[[Namespace |-> "other", Name |-> "api-deployment"]] # NoObj
           /\ services[[Namespace |-> "other", Name |-> "api-service"]] # NoObj

\* What the invocation read and what it wants, per child kind.
FoundSpec(p, kind) ==
    IF kind = "Deployment" THEN p.foundDeployment.Spec ELSE p.foundService.Spec

WantedSpec(p, kind) ==
    IF kind = "Deployment" THEN DesiredDeployment(p.app).Spec
    ELSE DesiredService(p.app).Spec

SubsetEqual(kind, a, b) ==
    IF kind = "Deployment" THEN DeploymentSubsetEqual(a, b) ELSE ServiceSubsetEqual(a, b)

\* The last store call of the invocation was a fetch of the child of the
\* given kind that ended with err.
JustFetched(p, kind, err) ==
    Len(p.ops) > 0 /\ p.ops[Len(p.ops)] = Op("Get", kind, err)

\* C15 (child fetch contract): for the Deployment and for the Service, a
\* fetch that fails with anything but absence is the last store call of the
\* pass, which ends Aborted with that error without a create or an update of
\* that child; a create is decided and issued only right after a fetch that
\* reported absence; an update only right after a fetch that succeeded and
\* returned a child whose compared fields differ from the desired ones.
C15_ChildFetchContract ==
    \A k \in DOMAIN pass : \A kind \in {"Deployment", "Service"} :
        LET p == pass[k]
            n == Len(p.ops)
        IN /\ \A i \in OpIndexes(p, "Get", kind) :
                p.ops[i].err \notin {"nil", "NotFound"}
                   => /\ i = n
                      /\ p.pc = "Aborted"
                      /\ p.result.err = p.ops[i].err
                      /\ OpIndexes(p, "Create", kind) = {}
                      /\ OpIndexes(p, "Update", kind) = {}
           /\ \A i \in OpIndexes(p, "Create", kind) :
                i > 1 /\ p.ops[i - 1] = Op("Get", kind, "NotFound")
           /\ \A i \in OpIndexes(p, "Update", kind) :
                /\ i > 1 /\ p.ops[i - 1] = Op("Get", kind, "nil")
                /\ ~SubsetEqual(kind, FoundSpec(p, kind), WantedSpec(p, kind))
           /\ p.pc = "Create" \o kind => JustFetched(p, kind, "NotFound")
           /\ p.pc = "Update" \o kind
                => /\ JustFetched(p, kind, "nil")
                   /\ ~SubsetEqual(kind, FoundSpec(p, kind), WantedSpec(p, kind))

\* The Service fetch failed after the Deployment had been created.
C15_Witness ==
    \E k \in DOMAIN pass :
        LET p == pass[k]
        IN /\ p.pc = "Aborted"
           /\ JustFetched(p, "Service", "Transient")
           /\ Succeeded(p, "Create", "Deployment")
           /\ StoredService(k) = NoObj

\* The position of a store call in the order of the steps: 1 fetch App,
\* 2 converge Deployment, 3 converge Service, 4 aggregate status.
StepOf(o) ==
    IF o.kind = "App" /\ o.op = "Get" THEN 1
    ELSE IF o.kind = "Deployment" THEN 2
    ELSE IF o.kind = "Service" THEN 3
    ELSE 4

\* Within a step: the read comes before the write.
RankOf(o) == 2 * StepOf(o) + (IF o.op \in {"Get", "List"} THEN 0 ELSE 1)

\* By the first m store calls the step on the child of the given kind has
\* completed successfully: the child was fetched and either found with the
\* compared fields as desired, or created, or updated, without error.
StepCompleted(p, kind, m) ==
    \E i \in OpIndexes(p, "Get", kind) :
        /\ i <= m
        /\ \/ /\ p.ops[i].err = "nil"
              /\ SubsetEqual(kind, FoundSpec(p, kind), WantedSpec(p, kind))
           \/ /\ i + 1 <= m
              /\ p.ops[i + 1].kind = kind
              /\ p.ops[i + 1].op \in {"Create", "Update"}
              /\ p.ops[i + 1].err = "nil"

\* C16 (step ordering): the store calls of one invocation occur in the
\* order fetch App, Deployment read and write, Service read and write, pod
\* list, status write, starting with the App fetch; a store call on the
\* Service is preceded by a successfully completed Deployment step, and a
\* pod list or status write by successfully completed Deployment and
\* Service steps.
C16_StepOrdering ==
    \A k \in DOMAIN pass :
        LET p == pass[k]
            n == Len(p.ops)
        IN /\ p.pc # "Idle" => n >= 1 /\ StepOf(p.ops[1]) = 1
           /\ \A i, j \in 1..n : i < j => RankOf(p.ops[i]) < RankOf(p.ops[j])
           /\ \A j \in 1..n :
                /\ StepOf(p.ops[j]) >= 3 => StepCompleted(p, "Deployment", j - 1)
                /\ StepOf(p.ops[j]) = 4 => StepCompleted(p, "Service", j - 1)
           /\ p.pc \in {"GetService", "CreateService", "UpdateService"}
                => StepCompleted(p, "Deployment", n)
           /\ p.pc \in {"ListPods", "UpdateStatus"}
                => StepCompleted(p, "Deployment", n) /\ StepCompleted(p, "Service", n)

\* A pass ran all four steps: it updated the Deployment, created the
\* Service, listed the pods and wrote the status.
C16_Witness ==
    \E k \in DOMAIN pass :
        LET p == pass[k]
        IN /\ p.pc = "Done"
           /\ Len(p.ops) = 7
           /\ Succeeded(p, "Update", "Deployment")
           /\ Succeeded(p, "Create", "Service")
           /\ Succeeded(p, "StatusUpdate", "App")

\* C19 (status step failure): a failed pod listing is the last store call
\* of its pass, which ends Aborted with that error and without a status
\* write; the stored App.status.replicas is still the value the pass
\* fetched, and a Deployment or Service the pass wrote before is still
\* stored as written unless another actor wrote it since.
C19_ListFailure ==
    \A k \in DOMAIN pass :
        LET p == pass[k]
        IN \A i \in OpIndexes(p, "List", "Pod") :
             p.ops[i].err # "nil"
                => /\ i = Len(p.ops)
                   /\ p.pc = "Aborted"
                   /\ p.result = [RequeueAfter |-> 0, err |-> p.ops[i].err]
                   /\ OpIndexes(p, "StatusUpdate", "App") = {}
                   /\ apps[k] # NoObj => apps[k].Status.Replicas = p.statusAtFetch
                   /\ ((Succeeded(p, "Create", "Deployment")
                          \/ Succeeded(p, "Update", "Deployment"))
                       /\ "Deployment" \notin p.touched)
                        => /\ StoredDeployment(k) # NoObj
                           /\ DeploymentMatches(StoredDeployment(k), p.app.Spec)
                   /\ ((Succeeded(p, "Create", "Service")
                          \/ Succeeded(p, "Update", "Service"))
                       /\ "Service" \notin p.touched)
                        => /\ StoredService(k) # NoObj
                           /\ ServiceMatches(StoredService(k), p.app.Spec)

\* The listing failed after the pass had updated the Deployment and created
\* the Service; the stored status is the fetched one although the number of
\* ready pods is another.
C19_Witness ==
    \E k \in DOMAIN pass :
        LET p == pass[k]
        IN /\ p.pc = "Aborted"
           /\ p.ops[Len(p.ops)] = Op("List", "Pod", "Transient")
           /\ Succeeded(p, "Update", "Deployment")
           /\ Succeeded(p, "Create", "Service")
           /\ p.touched = {}
           /\ apps[k] # NoObj
           /\ apps[k].Status.Replicas = p.statusAtFetch
           /\ apps[k].Status.Replicas # Cardinality(ReadyPodsOf(pods, k.Namespace, k.Name))
           /\ DeploymentMatches(StoredDeployment(k), p.app.Spec)
           /\ ServiceMatches(StoredService(k), p.app.Spec)

\* ------------------------------------------- the comparisons on their own

\* Containers a Deployment spec may list first: they differ from the first
\* one in the image, the first port, the number of ports, a later port or
\* the name.
ContainerChoices ==
    { [Name |-> "main", Image |-> "nginx:1.0", Ports |-> << 8080 >>],
      [Name |-> "main", Image |-> "nginx:2.0", Ports |-> << 8080 >>],
      [Name |-> "main", Image |-> "nginx:1.0", Ports |-> << 80 >>],
      [Name |-> "main", Image |-> "nginx:1.0", Ports |-> << >>],
      [Name |-> "main", Image |-> "nginx:1.0", Ports |-> << 8080, 80 >>],
      [Name |-> "main", Image |-> "nginx:1.0", Ports |-> << 8080, 9090 >>],
      [Name |-> "app-container", Image |-> "nginx:1.0", Ports |-> << 8080 >>] }

\* A second container, when there is one.
SidecarChoices ==
    { [Name |-> "sidecar", Image |-> "envoy", Ports |-> << >>],
      [Name |-> "sidecar", Image |-> "nginx:2.0", Ports |-> << 80 >>] }

ContainerLists ==
    {<< >>} \cup {<< c >> : c \in ContainerChoices}
            \cup {<< c, d >> : c \in ContainerChoices, d \in SidecarChoices}

\* Deployment specs with the replica count set, as the store returns them
\* and as desiredDeployment builds them.
DeploymentSpecs ==
    [Replicas : ReplicaChoices,
     Selector : {{<<"app", "web">>}},
     TemplateLabels : {{<<"app", "web">>}},
     Paused : BOOLEAN,
     Containers : ContainerLists]

\* Two Deployments to compare.
InitDeploymentEqual ==
    /\ deployments \in [{"a", "b"} -> DeploymentSpecs]
    /\ pass = [pc |-> "Call", equal |-> FALSE]
    /\ apps = << >> /\ services = << >> /\ pods = << >>
    /\ schemeOK = TRUE
    /\ ext = 0

\* deploymentEqual(a, b) is called and returns.
CallDeploymentEqual ==
    /\ pass.pc = "Call"
    /\ pass' = [pc |-> "Return",
                equal |-> deploymentEqual(deployments["a"], deployments["b"])]
    /\ UNCHANGED <<apps, deployments, services, pods, schemeOK, ext>>

SpecDeploymentEqual == InitDeploymentEqual /\ [][CallDeploymentEqual]_vars

\* C17 (Deployment partial equality): deploymentEqual returns true exactly
\* when the replica counts are equal, the container counts are equal and,
\* if there is a container, the first containers have equal images and
\* equally many ports and, if they have a port, equal first ports.
C17_DeploymentEqualPolicy ==
    pass.pc = "Return"
       => pass.equal = DeploymentSubsetEqual(deployments["a"], deployments["b"])

\* deploymentEqual returned true for two specs that differ in the paused
\* flag, in the second container and in the first container's name or
\* second port.
C17_Witness ==
    /\ pass.pc = "Return" /\ pass.equal
    /\ deployments["a"].Paused # deployments["b"].Paused
    /\ Len(deployments["a"].Containers) = 2
    /\ deployments["a"].Containers[2] # deployments["b"].Containers[2]
    /\ deployments["a"].Containers[1].Name # deployments["b"].Containers[1].Name
       \/ /\ Len(deployments["a"].Containers[1].Ports) = 2
          /\ deployments["a"].Containers[1].Ports[2] # deployments["b"].Containers[1].Ports[2]

\* Port entries a Service spec may list first: they differ from the first
\* one in the way the target port is written (number, digits, name), the
\* protocol, the port number or the target port's value.
ServicePortChoices ==
    { [Protocol |-> "TCP", Port |-> 80, TargetPort |-> FromInt(80)],
      [Protocol |-> "TCP", Port |-> 80, TargetPort |-> FromString(<<"8", "0">>)],
      [Protocol |-> "TCP", Port |-> 80, TargetPort |-> FromString(<<"h", "t", "t", "p">>)],
      [Protocol |-> "TCP", Port |-> 80, TargetPort |-> FromInt(0)],
      [Protocol |-> "UDP", Port |-> 80, TargetPort |-> FromInt(80)],
      [Protocol |-> "TCP", Port |-> 8080, TargetPort |-> FromInt(80)],
      [Protocol |-> "TCP", Port |-> 80, TargetPort |-> FromInt(8080)] }

\* A second port entry, when there is one.
ExtraPortChoices ==
    { [Protocol |-> "TCP", Port |-> 9090, TargetPort |-> FromInt(9090)],
      [Protocol |-> "UDP", Port |-> 53, TargetPort |-> FromInt(53)] }

ServicePortLists ==
    {<< >>} \cup {<< e >> : e \in ServicePortChoices}
            \cup {<< e, x >> : e \in ServicePortChoices, x \in ExtraPortChoices}

ServiceSpecs ==
    [Selector : {{<<"app", "web">>}, {<<"app", "legacy">>}},
     ClusterIP : {"10.0.0.1", "10.0.0.2"},
     Type : {"ClusterIP", "NodePort"},
     Ports : ServicePortLists]

\* Two Services to compare.
InitServiceEqual ==
    /\ services \in [{"a", "b"} -> ServiceSpecs]
    /\ pass = [pc |-> "Call", equal |-> FALSE]
    /\ apps = << >> /\ deployments = << >> /\ pods = << >>
    /\ schemeOK = TRUE
    /\ ext = 0

\* serviceEqual(a, b) is called and returns.
CallServiceEqual ==
    /\ pass.pc = "Call"
    /\ pass' = [pc |-> "Return",
                equal |-> serviceEqual(services["a"], services["b"])]
    /\ UNCHANGED <<apps, deployments, services, pods, schemeOK, ext>>

SpecServiceEqual == InitServiceEqual /\ [][CallServiceEqual]_vars

\* C18 (Service partial equality): serviceEqual returns true exactly when
\* the service types are equal, the port lists are equally long and, if
\* both have a port, the first ports have equal port numbers, equal numeric
\* values of the target port and equal protocols.
C18_ServiceEqualPolicy ==
    pass.pc = "Return"
       => pass.equal = ServiceSubsetEqual(services["a"], services["b"])

\* serviceEqual returned true for two specs that differ in the selector,
\* the cluster address, the second port and the way the first target port
\* is written.
C18_Witness ==
    /\ pass.pc = "Return" /\ pass.equal
    /\ services["a"].Selector # services["b"].Selector
    /\ services["a"].ClusterIP # services["b"].ClusterIP
    /\ Len(services["a"].Ports) = 2
    /\ services["a"].Ports[2] # services["b"].Ports[2]
    /\ services["a"].Ports[1].TargetPort # services["b"].Ports[1].TargetPort

\* ------------------------------------------------------ two Apps at once

\* The second App: same namespace and another name, or the same name in
\* another namespace.
SecondKeys == {NamespacedName("default", "api"), NamespacedName("other", "web")}

\* The two Apps ask for different things.
TwoApp(k) ==
    IF k = ReqKey THEN NewApp(k, "nginx:1.0", 3, 8080, 0)
    ELSE NewApp(k, "nginx:2.0", 5, 80, 0)

\* What somebody else stored under the managed names before: children that
\* differ from what the App asks for.
TwoForeignDeployment(k) == ForeignDeployment(k, IF k = ReqKey THEN 5 ELSE 3)

TwoForeignService(k) == ForeignService(k, IF k = ReqKey THEN 80 ELSE 8080)

InitTwo ==
    /\ \E second \in SecondKeys :
         LET keys == {ReqKey, second}
         IN /\ apps = [k \in AppKeys |-> IF k \in keys THEN TwoApp(k) ELSE NoObj]
            /\ \E foreign \in SUBSET keys :
                 deployments = [dk \in {DeploymentKey(x) : x \in AppKeys} |->
                                  IF \E k \in foreign : dk = DeploymentKey(k)
                                  THEN TwoForeignDeployment(
                                          CHOOSE k \in foreign : dk = DeploymentKey(k))
                                  ELSE NoObj]
            /\ \E foreign \in SUBSET keys :
                 services = [sk \in {ServiceKey(x) : x \in AppKeys} |->
                               IF \E k \in foreign : sk = ServiceKey(k)
                               THEN TwoForeignService(
                                       CHOOSE k \in foreign : sk = ServiceKey(k))
                               ELSE NoObj]
            /\ pass = [k \in keys |-> IdlePass]
    /\ pods \in InitPods
    /\ schemeOK = TRUE
    /\ ext = 0

\* The invocations for the two Apps run concurrently, step by step in any
\* interleaving; no other actor writes.
SpecTwo == InitTwo /\ [][NextReconcile]_vars

\* The objects of the App k as a lone first successful pass leaves them: a
\* child that was absent is created as desired and owned, a child somebody
\* else had stored gets the desired spec, the status is the number of k's
\* ready pods.
SerialDeployments(k) ==
    { [OwnedDeployment(TwoApp(k)) EXCEPT !.rv = 1],
      [TwoForeignDeployment(k) EXCEPT !.Spec = DesiredDeployment(TwoApp(k)).Spec,
                                      !.rv = 2] }

SerialServices(k) ==
    { [OwnedService(TwoApp(k)) EXCEPT !.rv = 1],
      [TwoForeignService(k) EXCEPT !.Spec = DesiredService(TwoApp(k)).Spec,
                                   !.rv = 2] }

SerialApp(k) ==
    [TwoApp(k) EXCEPT !.rv = 2,
                      !.Status.Replicas =
                          Cardinality(ReadyPodsOf(pods, k.Namespace, k.Name))]

\* A step of the invocation for k leaves every object of every other App
\* and the other invocation as they were, and what the invocation holds
\* afterwards are k's own App, Deployment and Service and the count of k's
\* own ready pods.
StepIsolated(k) ==
    pass'[k] # pass[k]
       => /\ \A j \in AppKeys \ {k} :
               /\ apps'[j] = apps[j]
               /\ deployments'[DeploymentKey(j)] = deployments[DeploymentKey(j)]
               /\ services'[ServiceKey(j)] = services[ServiceKey(j)]
          /\ \A j \in DOMAIN pass \ {k} : pass'[j] = pass[j]
          /\ LET p == pass'[k]
             IN /\ Fetched(p)
                     => p.app.Namespace = k.Namespace /\ p.app.Name = k.Name
                /\ p.foundDeployment # NoObj
                     => /\ p.foundDeployment.Namespace = k.Namespace
                        /\ p.foundDeployment.Name = k.Name \o "-deployment"
                /\ p.foundService # NoObj
                     => /\ p.foundService.Namespace = k.Namespace
                        /\ p.foundService.Name = k.Name \o "-service"
                /\ Succeeded(p, "List", "Pod")
                     => p.readyPods =
                           Cardinality(ReadyPodsOf(pods, k.Namespace, k.Name))

\* Once the invocations of both Apps have ended Done, each App's children
\* and status are what a lone pass for that App leaves.
SerialOutcome ==
    (\A k \in DOMAIN pass : pass[k].pc = "Done" /\ Fetched(pass[k]))
       => \A k \in DOMAIN pass :
            /\ StoredDeployment(k) \in SerialDeployments(k)
            /\ StoredService(k) \in SerialServices(k)
            /\ apps[k] = SerialApp(k)

\* C20 (isolation between Apps): with the invocations of two distinct Apps
\* interleaved step by step, no step of one invocation reads into its state,
\* creates or updates the other App's Deployment, Service or status or
\* counts the other App's pods, and when both have ended Done each App's
\* children and status are those a run of the two passes one after the
\* other produces.
C20_Isolation ==
    /\ [][\A k \in DOMAIN pass : StepIsolated(k)]_vars
    /\ []SerialOutcome

\* Both invocations are in flight at once, each about to write its status
\* after creating or updating its own children; the two Apps have the same
\* name in different namespaces.
C20_Witness ==
    /\ DOMAIN pass = {ReqKey, NamespacedName("other", "web")}
    /\ \A k \in DOMAIN pass :
         /\ pass[k].pc = "UpdateStatus"
         /\ StoredDeployment(k) \in SerialDeployments(k)
         /\ StoredService(k) \in SerialServices(k)
    /\ Succeeded(pass[ReqKey], "Create", "Deployment")
    /\ Succeeded(pass[NamespacedName("other", "web")], "Update", "Deployment")

====
